---- MODULE Spec2Model ----
(***************************************************************************)
(* A model of sudoku_py/sudoku.py: the SudokuGame object (start board,     *)
(* working board, game_over flag), the board parser and the event handlers *)
(* of SudokuUI that read and write the game (click, key press, "Clear      *)
(* answers").                                                              *)
(*                                                                         *)
(* Python lists are TLA+ sequences held in a heap of row objects, so that  *)
(* sharing between start_puzzle and puzzle is something a step can show.   *)
(* Python indices are 0-based and may be negative; PyPos translates them.  *)
(* An exception that leaves a Tk callback is reported by Tk and the main   *)
(* loop goes on: the handler's writes made before the raise stay.          *)
(***************************************************************************)
EXTENDS Integers, Sequences, FiniteSets, TLC

VARIABLES
    heap,          \* row objects: address -> list of cell values
    start_puzzle,  \* SudokuGame.start_puzzle: list of row addresses
    puzzle,        \* SudokuGame.puzzle: list of row addresses
    game_over,     \* SudokuGame.game_over
    row, col,      \* SudokuUI.row, SudokuUI.col (the cursor)
    focus,         \* whether the canvas holds the keyboard focus
    result,        \* what the latest check_win() call did: "none" before any call
    err,           \* the exception that left the latest handler, or "none"
    loaded,        \* history: the board values SudokuBoard produced at load time
    lastOp,        \* history: the latest event
    streak,        \* history: how many times in a row lastOp happened (capped)
    checks,        \* history: check_win() calls since the latest board write (capped)
    wrote,         \* history: whether the latest event wrote a cell of the working board
    pc,            \* where __main__ is: "parse", "parsed", "started", "running", "failed"
    boards_file,   \* the lines of the board file __main__ opened
    ui_built       \* whether Tk() and SudokuUI(root, game) have been constructed

vars == <<heap, start_puzzle, puzzle, game_over, row, col, focus, result, err,
          loaded, lastOp, streak, checks, wrote, pc, boards_file, ui_built>>

\* What the handlers of the running program leave alone.
boot == <<pc, boards_file, ui_built>>

(***************************************************************************)
(* Program constants                                                       *)
(***************************************************************************)
MARGIN == 20
SIDE == 50
WIDTH == MARGIN * 2 + SIDE * 9
HEIGHT == MARGIN * 2 + SIDE * 9

(***************************************************************************)
(* Bounds of the model                                                     *)
(***************************************************************************)
\* The history counters streak and checks stop counting here.
MaxStreak == 2
\* How many keys of Keyboard the player uses.
NumKeys == 6
\* How many board files of BoardFiles can be loaded.
NumBoards == 2

Min(a, b) == IF a < b THEN a ELSE b

(***************************************************************************)
(* Characters                                                              *)
(***************************************************************************)
DigitChars == <<"0", "1", "2", "3", "4", "5", "6", "7", "8", "9">>

\* str.isdigit() of one character
isdigit(ch) == \E k \in 1..10 : DigitChars[k] = ch

\* int(ch) of one character; int("") and int("a") raise ValueError
int_ord(ch) == (CHOOSE k \in 1..10 : DigitChars[k] = ch) + 47

int(ch) == (CHOOSE k \in 1..10 : DigitChars[k] = ch) - 1

int_raises(ch) == ~isdigit(ch)

\* event.char in "1234567890": a substring test, so the empty string passes
char_in_digits(ch) == ch = "" \/ isdigit(ch)

Whitespace == {" ", "\n", "\t", "\r"}

RECURSIVE lstrip(_)
lstrip(line) ==
    IF line # <<>> /\ Head(line) \in Whitespace THEN lstrip(Tail(line)) ELSE line

RECURSIVE rstrip(_)
rstrip(line) ==
    IF line # <<>> /\ line[Len(line)] \in Whitespace
    THEN rstrip(SubSeq(line, 1, Len(line) - 1))
    ELSE line

\* str.strip(); a line is a sequence of one-character strings
strip(line) == lstrip(rstrip(line))

(***************************************************************************)
(* Python list indexing                                                    *)
(***************************************************************************)
\* list[i] raises IndexError unless -len <= i < len
InRange(list, i) == -Len(list) <= i /\ i < Len(list)

\* the 1-based position that list[i] reads: a negative i counts from the end
PyPos(list, i) == IF i < 0 THEN Len(list) + i + 1 ELSE i + 1

PyGet(list, i) == list[PyPos(list, i)]

\* Python 2 integer division a / b for b > 0: the floor
FloorDiv(a, b) == a \div b

(***************************************************************************)
(* SudokuBoard.__create_board                                              *)
(***************************************************************************)
\* One line: the list of its digits, or the error raised while reading it.
RECURSIVE line_digits_prepend(_, _)
line_digits_prepend(line, acc) ==
    IF line = <<>> THEN [ok |-> TRUE, value |-> acc]
    ELSE IF ~isdigit(Head(line))
         THEN [ok |-> FALSE,
               error |-> "Each set of characters in the sudoku puzzle must be within 0-9"]
         ELSE line_digits_prepend(Tail(line), <<int(Head(line))>> \o acc)

RECURSIVE line_digits(_, _)
line_digits(line, acc) ==
    IF line = <<>> THEN [ok |-> TRUE, value |-> acc]
    ELSE IF ~isdigit(Head(line))
         THEN [ok |-> FALSE,
               error |-> "Each set of characters in the sudoku puzzle must be within 0-9"]
         ELSE line_digits(Tail(line), Append(acc, int(Head(line))))

RECURSIVE board_lines_any_count(_, _)
board_lines_any_count(board_file, board) ==
    IF board_file = <<>> THEN [ok |-> TRUE, value |-> board]
    ELSE LET line == strip(Head(board_file)) IN
        IF Len(line) # 9
        THEN [ok |-> FALSE,
              error |-> "Each line in the sudoku puzzle must be 9 chars long"]
        ELSE LET digits == line_digits(line, <<>>) IN
            IF ~digits.ok THEN digits
            ELSE board_lines_any_count(Tail(board_file), Append(board, digits.value))

RECURSIVE board_lines(_, _)
board_lines(board_file, board) ==
    IF board_file = <<>> THEN
        IF Len(board) # 9
        THEN [ok |-> FALSE, error |-> "Error: length of board must be 9"]
        ELSE [ok |-> TRUE, value |-> board]
    ELSE LET line == strip(Head(board_file)) IN
        IF Len(line) # 9
        THEN [ok |-> FALSE,
              error |-> "Each line in the sudoku puzzle must be 9 chars long"]
        ELSE LET digits == line_digits(line, <<>>) IN
            IF ~digits.ok THEN digits
            ELSE board_lines(Tail(board_file), Append(board, digits.value))

create_board(board_file) == board_lines(board_file, <<>>)

(***************************************************************************)
(* Board files the player can load                                         *)
(***************************************************************************)
Solved ==
    << <<5,3,4,6,7,8,9,1,2>>,
       <<6,7,2,1,9,5,3,4,8>>,
       <<1,9,8,3,4,2,5,6,7>>,
       <<8,5,9,7,6,1,4,2,3>>,
       <<4,2,6,8,5,3,7,9,1>>,
       <<7,1,3,9,2,4,8,5,6>>,
       <<9,6,1,5,3,7,2,8,4>>,
       <<2,8,7,4,1,9,6,3,5>>,
       <<3,4,5,2,8,6,1,7,9>> >>

\* The file of a grid: one line of nine digit characters and a newline per row.
FileOf(grid) ==
    [i \in 1..9 |-> [j \in 1..10 |-> IF j = 10 THEN "\n" ELSE DigitChars[grid[i][j] + 1]]]

\* grid with the cells of blanks (pairs of 0-based row and column) set to 0
Blanked(grid, blanks) ==
    [i \in 1..9 |-> [j \in 1..9 |-> IF <<i - 1, j - 1>> \in blanks THEN 0 ELSE grid[i][j]]]

BoardFiles ==
    << FileOf(Solved),
       FileOf(Blanked(Solved, {<<0, 0>>, <<0, 1>>, <<8, 8>>})),
       FileOf(Blanked(Solved, {<<1, 1>>, <<8, 0>>})) >>

\* The keys of the player, in the order the bound NumKeys admits them.
Keyboard == <<"5", "3", "9", "0", "", "a", "1">>

Keys == {Keyboard[k] : k \in 1..Min(NumKeys, Len(Keyboard))}

\* Pixel coordinates of clicks: the margin, cells 0, 1 and 8, and past the grid.
Pixels == {10, 30, 80, 450, 480}

(***************************************************************************)
(* The boards as values                                                    *)
(***************************************************************************)
Rows(refs, h) == [i \in 1..Len(refs) |-> h[refs[i]]]

Board == Rows(puzzle, heap)

StartBoard == Rows(start_puzzle, heap)

StartAddrs == 1..9
PuzzleAddrs == 10..18

(***************************************************************************)
(* SudokuGame                                                              *)
(***************************************************************************)
\* start(): game_over = False and puzzle = a fresh list of fresh rows, each
\* filled cell by cell from start_puzzle. h is the heap and sp the list
\* start_puzzle; the rows the old puzzle held are unreachable afterwards, so
\* their addresses are the fresh ones.
start_shared(h, sp) ==
    [heap |-> h, puzzle |-> sp, game_over |-> FALSE]

start_transposed(h, sp) ==
    [heap |-> [a \in DOMAIN h |->
                  IF a \in PuzzleAddrs
                  THEN [j \in 1..9 |-> PyGet(h[PyGet(sp, j - 1)], a - 10)]
                  ELSE h[a]],
     puzzle |-> [i \in 1..9 |-> 9 + i],
     game_over |-> FALSE]

start(h, sp) ==
    [heap |-> [a \in DOMAIN h |->
                  IF a \in PuzzleAddrs
                  THEN [j \in 1..9 |-> PyGet(h[PyGet(sp, a - 10)], j - 1)]
                  ELSE h[a]],
     puzzle |-> [i \in 1..9 |-> 9 + i],
     game_over |-> FALSE]

\* __check_block: set(block) == set(range(1, 10))
check_block_from_zero(block) ==
    {block[k] : k \in 1..Len(block)} \subseteq 0..9

check_block(block) == {block[k] : k \in 1..Len(block)} = 1..9

\* __check_row on board b
check_row(b, r) == check_block(PyGet(b, r))

\* The methods class SudokuGame defines. A call self.__name inside the class
\* looks up _SudokuGame__name and raises AttributeError when it is missing.
Methods ==
    {"__init__", "start", "check_win",
     "__check_block", "__check_row", "__check_col", "__check_sqr"}

\* check_win() on board b with flag over: what the call does ("True" and
\* "False" are its return values, "AttributeError" the exception it raises)
\* and the flag afterwards. The column loop calls self.__check_column and the
\* square loop self.__check_square.
check_win_flags_first(b, over) ==
    IF \E r \in 0..8 : ~check_row(b, r)
    THEN [outcome |-> "False", game_over |-> TRUE]
    ELSE IF "__check_column" \notin Methods \/ "__check_square" \notin Methods
         THEN [outcome |-> "AttributeError", game_over |-> TRUE]
         ELSE [outcome |-> "True", game_over |-> TRUE]

check_win(b, over) ==
    IF \E r \in 0..8 : ~check_row(b, r)
    THEN [outcome |-> "False", game_over |-> over]
    ELSE IF "__check_column" \notin Methods
         THEN [outcome |-> "AttributeError", game_over |-> over]
         ELSE IF "__check_square" \notin Methods
              THEN [outcome |-> "AttributeError", game_over |-> over]
              ELSE [outcome |-> "True", game_over |-> TRUE]

(***************************************************************************)
(* History                                                                 *)
(***************************************************************************)
Op(name) ==
    /\ lastOp' = name
    /\ streak' = IF lastOp = name THEN Min(streak + 1, MaxStreak) ELSE 1

(***************************************************************************)
(* SudokuUI handlers                                                       *)
(***************************************************************************)
\* "Clear answers": __clear_answers calls game.start() and redraws.
clear_answers ==
    LET s == start(heap, start_puzzle) IN
    /\ heap' = s.heap
    /\ puzzle' = s.puzzle
    /\ game_over' = s.game_over
    /\ err' = "none"
    /\ checks' = 0
    /\ wrote' = FALSE
    /\ Op("start")
    /\ UNCHANGED <<start_puzzle, row, col, focus, result, loaded, boot>>

\* <Button-1> at canvas pixel (x, y)
cell_clicked(x, y) ==
    LET r == FloorDiv(y - MARGIN, SIDE)
        c == FloorDiv(x - MARGIN, SIDE)
        inside == MARGIN < x /\ x < WIDTH - MARGIN /\ MARGIN < y /\ y < HEIGHT - MARGIN
    IN
    /\ IF game_over
       THEN /\ err' = "none"
            /\ UNCHANGED <<row, col, focus>>
       ELSE /\ focus' = (focus \/ inside)
            /\ IF <<r, c>> = <<row, col>>
               THEN row' = -1 /\ col' = -1 /\ err' = "none"
               ELSE IF ~InRange(puzzle, r) \/ ~InRange(heap[PyGet(puzzle, r)], c)
                    THEN err' = "IndexError" /\ UNCHANGED <<row, col>>
                    ELSE IF PyGet(heap[PyGet(puzzle, r)], c) = 0
                         THEN row' = r /\ col' = c /\ err' = "none"
                         ELSE err' = "none" /\ UNCHANGED <<row, col>>
    /\ wrote' = FALSE
    /\ Op("click")
    /\ UNCHANGED <<heap, start_puzzle, puzzle, game_over, result, loaded, checks, boot>>

\* self.game.puzzle[r][c] = v: the heap after the write through list p
set_cell_swapped(h, p, r, c, v) ==
    LET target == PyGet(p, c) IN
    [h EXCEPT ![target][PyPos(h[target], r)] = v]

set_cell(h, p, r, c, v) ==
    LET target == PyGet(p, r) IN
    [h EXCEPT ![target][PyPos(h[target], c)] = v]

key_accept_keeps_cursor(ch) ==
    IF col >= 0 /\ row >= 0 /\ char_in_digits(ch)
    THEN IF int_raises(ch)
         THEN /\ err' = "ValueError"
              /\ wrote' = FALSE
              /\ UNCHANGED <<heap, game_over, row, col, result, checks>>
         ELSE LET h2 == set_cell(heap, puzzle, row, col, int(ch))
                  won == check_win(Rows(puzzle, h2), game_over)
              IN
              /\ heap' = h2
              /\ UNCHANGED <<row, col>>
              /\ result' = won.outcome
              /\ game_over' = won.game_over
              /\ checks' = 1
              /\ wrote' = TRUE
              \* a True return goes on to self.__draw_victory(), a
              \* function defined without a self parameter
              /\ err' = CASE won.outcome = "AttributeError" -> "AttributeError"
                          [] won.outcome = "True" -> "TypeError"
                          [] OTHER -> "none"
    ELSE /\ err' = "none"
         /\ wrote' = FALSE
         /\ UNCHANGED <<heap, game_over, row, col, result, checks>>

\* __key_pressed past its game_over test: the digit test, the write, the
\* cursor reset and the win check.
key_accept(ch) ==
    IF col >= 0 /\ row >= 0 /\ char_in_digits(ch)
    THEN IF int_raises(ch)
         THEN /\ err' = "ValueError"
              /\ wrote' = FALSE
              /\ UNCHANGED <<heap, game_over, row, col, result, checks>>
         ELSE LET h2 == set_cell(heap, puzzle, row, col, int(ch))
                  won == check_win(Rows(puzzle, h2), game_over)
              IN
              /\ heap' = h2
              /\ row' = -1 /\ col' = -1
              /\ result' = won.outcome
              /\ game_over' = won.game_over
              /\ checks' = 1
              /\ wrote' = TRUE
              \* a True return goes on to self.__draw_victory(), a
              \* function defined without a self parameter
              /\ err' = CASE won.outcome = "AttributeError" -> "AttributeError"
                          [] won.outcome = "True" -> "TypeError"
                          [] OTHER -> "none"
    ELSE /\ err' = "none"
         /\ wrote' = FALSE
         /\ UNCHANGED <<heap, game_over, row, col, result, checks>>

key_pressed_unguarded(ch) ==
    /\ focus
    /\ key_accept(ch)
    /\ Op("key")
    /\ UNCHANGED <<start_puzzle, puzzle, focus, loaded, boot>>

\* <Key> with event.char = ch; the canvas receives it only while it has the focus
key_pressed(ch) ==
    /\ focus
    /\ IF game_over
       THEN /\ err' = "none"
            /\ wrote' = FALSE
            /\ UNCHANGED <<heap, game_over, row, col, result, checks>>
       ELSE key_accept(ch)
    /\ Op("key")
    /\ UNCHANGED <<start_puzzle, puzzle, focus, loaded, boot>>

\* A call of game.check_win() by itself, as a user of SudokuGame makes it.
check_win_event ==
    LET won == check_win(Board, game_over) IN
    /\ result' = won.outcome
    /\ game_over' = won.game_over
    /\ err' = IF won.outcome = "AttributeError" THEN "AttributeError" ELSE "none"
    /\ checks' = Min(checks + 1, MaxStreak)
    /\ wrote' = FALSE
    /\ Op("check_win")
    /\ UNCHANGED <<heap, start_puzzle, puzzle, row, col, focus, loaded, boot>>

(***************************************************************************)
(* Specifications                                                          *)
(***************************************************************************)
\* __main__: the board file is parsed, game.start() runs, SudokuUI is built
\* with the cursor at (0, 0); nothing has given the canvas the focus yet.
Launched(f) ==
    LET parsed == create_board(BoardFiles[f])
        h0 == [a \in StartAddrs \cup PuzzleAddrs |->
                  IF a \in StartAddrs /\ parsed.ok THEN parsed.value[a] ELSE <<>>]
        sp == [i \in 1..9 |-> i]
        s == start(h0, sp)
    IN
    /\ parsed.ok
    /\ loaded = parsed.value
    /\ start_puzzle = sp
    /\ heap = s.heap
    /\ puzzle = s.puzzle
    /\ row = 0 /\ col = 0
    /\ result = "none" /\ err = "none"
    /\ streak = 1 /\ checks = 0
    /\ wrote = FALSE
    /\ pc = "running"
    /\ boards_file = BoardFiles[f]
    /\ ui_built = TRUE

Init ==
    /\ \E f \in 1..Min(NumBoards, Len(BoardFiles)) : Launched(f)
    /\ game_over = FALSE
    /\ focus = FALSE
    /\ lastOp = "start"

Next ==
    \/ clear_answers
    \/ \E x \in Pixels, y \in Pixels : cell_clicked(x, y)
    \/ \E ch \in Keys : key_pressed(ch)
    \/ check_win_event

Spec == Init /\ [][Next]_vars

\* The same handlers started from either value of the flag and of the focus,
\* with no event seen yet: the states a handler can be entered in when the flag
\* is held true. (No run of Spec sets the flag; see C1.)
InitFlag ==
    /\ \E f \in 1..Min(NumBoards, Len(BoardFiles)) : Launched(f)
    /\ game_over \in BOOLEAN
    /\ focus \in BOOLEAN
    /\ lastOp = "none"

SpecFlag == InitFlag /\ [][Next]_vars

(***************************************************************************)
(* __main__ from the opening of the board file                             *)
(***************************************************************************)
\* Lines made from a line l of a board file (nine digits and a newline).
ShortLine(l) == Tail(l)
LongLine(l) == <<"1">> \o l
LetterLine(l) == [l EXCEPT ![5] = "a"]
GapLine(l) == [l EXCEPT ![5] = " "]
BlankLine(l) == <<"\n">>
SpacedLine(l) == <<" ">> \o l
BareLine(l) == SubSeq(l, 1, 9)
ReversedLine(l) == [j \in 1..10 |-> IF j = 10 THEN "\n" ELSE l[10 - j]]

\* The lines of f where a changed line is tried.
LinePositions == {1, 5, 9}

\* The files made from board file f: f itself, f without its last line, f with
\* a tenth line, no line at all, and f with one line changed.
FilesFrom(f) ==
    {f, SubSeq(f, 1, 8), Append(f, f[1]), <<>>}
    \cup UNION {{[f EXCEPT ![i] = l] :
                    l \in {ShortLine(f[i]), LongLine(f[i]), LetterLine(f[i]),
                           GapLine(f[i]), BlankLine(f[i]), SpacedLine(f[i]),
                           BareLine(f[i]), ReversedLine(f[i])}} :
                i \in LinePositions}

InputFiles ==
    UNION {FilesFrom(BoardFiles[f]) : f \in 1..Min(NumBoards, Len(BoardFiles))}

\* game = SudokuGame(boards_file): __init__ parses the file into start_puzzle;
\* a SudokuError leaves __main__ and ends the program.
main_parse_goes_on ==
    LET parsed == create_board(boards_file) IN
    /\ pc = "parse"
    /\ IF parsed.ok
       THEN /\ heap' = [a \in DOMAIN heap |->
                           IF a <= Len(parsed.value) THEN parsed.value[a] ELSE heap[a]]
            /\ start_puzzle' = [i \in 1..Len(parsed.value) |-> i]
            /\ loaded' = parsed.value
            /\ pc' = "parsed"
            /\ UNCHANGED err
       ELSE /\ err' = "SudokuError"
            /\ pc' = "started"
            /\ UNCHANGED <<heap, start_puzzle, loaded>>
    /\ UNCHANGED <<puzzle, game_over, row, col, focus, result, lastOp, streak,
                   checks, wrote, boards_file, ui_built>>

main_parse ==
    LET parsed == create_board(boards_file) IN
    /\ pc = "parse"
    /\ IF parsed.ok
       THEN /\ heap' = [a \in DOMAIN heap |->
                           IF a <= Len(parsed.value) THEN parsed.value[a] ELSE heap[a]]
            /\ start_puzzle' = [i \in 1..Len(parsed.value) |-> i]
            /\ loaded' = parsed.value
            /\ pc' = "parsed"
            /\ UNCHANGED err
       ELSE /\ err' = "SudokuError"
            /\ pc' = "failed"
            /\ UNCHANGED <<heap, start_puzzle, loaded>>
    /\ UNCHANGED <<puzzle, game_over, row, col, focus, result, lastOp, streak,
                   checks, wrote, boards_file, ui_built>>

\* game.start()
main_start ==
    LET s == start(heap, start_puzzle) IN
    /\ pc = "parsed"
    /\ heap' = s.heap
    /\ puzzle' = s.puzzle
    /\ game_over' = s.game_over
    /\ Op("start")
    /\ pc' = "started"
    /\ UNCHANGED <<start_puzzle, row, col, focus, result, err, loaded, checks,
                   wrote, boards_file, ui_built>>

\* root = Tk(); SudokuUI(root, game): the cursor starts at (0, 0)
main_ui ==
    /\ pc = "started"
    /\ row' = 0 /\ col' = 0
    /\ ui_built' = TRUE
    /\ pc' = "running"
    /\ UNCHANGED <<heap, start_puzzle, puzzle, game_over, focus, result, err,
                   loaded, lastOp, streak, checks, wrote, boards_file>>

\* The board file is open and nothing else exists yet: no board, no working
\* board, no flag (never read before start() sets it), no cursor.
InitMain ==
    /\ boards_file \in InputFiles
    /\ pc = "parse"
    /\ ui_built = FALSE
    /\ heap = [a \in StartAddrs \cup PuzzleAddrs |-> <<>>]
    /\ start_puzzle = <<>>
    /\ puzzle = <<>>
    /\ loaded = <<>>
    /\ game_over = FALSE
    /\ row = -1 /\ col = -1
    /\ focus = FALSE
    /\ result = "none" /\ err = "none"
    /\ lastOp = "none" /\ streak = 0 /\ checks = 0
    /\ wrote = FALSE

\* root.mainloop() handles events once the UI is built.
NextMain ==
    \/ main_parse
    \/ main_start
    \/ main_ui
    \/ pc = "running" /\ clear_answers
    \/ pc = "running" /\ \E x \in Pixels, y \in Pixels : cell_clicked(x, y)
    \/ pc = "running" /\ \E ch \in Keys : key_pressed(ch)
    \/ pc = "running" /\ check_win_event

SpecMain == InitMain /\ [][NextMain]_vars

(***************************************************************************)
(* Properties                                                              *)
(***************************************************************************)
\* The set of values of cells (r, c) of board b, r in rs and c in cs (1-based).
Values(b, rs, cs) == {b[r][c] : r \in rs, c \in cs}

\* A valid completed Sudoku: each row, each column and each 3x3 block holds
\* exactly the values 1..9.
IsSolved(b) ==
    /\ \A r \in 1..9 : Values(b, {r}, 1..9) = 1..9
    /\ \A c \in 1..9 : Values(b, 1..9, {c}) = 1..9
    /\ \A br \in 0..2, bc \in 0..2 :
          Values(b, (3 * br + 1)..(3 * br + 3), (3 * bc + 1)..(3 * bc + 3)) = 1..9

HasBlank(b) == \E r \in 1..9, c \in 1..9 : b[r][c] = 0

\* C1: whenever check_win() has run on a working board that is a valid
\* completed Sudoku, it returned true and game_over is true.
C1_SolvedBoardWins ==
    (checks >= 1 /\ IsSolved(Board)) => (result = "True" /\ game_over)

\* C2: whenever check_win() has run on a working board with a row, a column or
\* a 3x3 block whose value set is not {1..9}, it returned false.
C2_InvalidBoardFails ==
    (checks >= 1 /\ ~IsSolved(Board)) => result = "False"

\* C3: whenever check_win() has run on a working board with a cell equal to 0,
\* it returned false and game_over is not true.
C3_BlankNeverPasses ==
    (checks >= 1 /\ HasBlank(Board)) => (result = "False" /\ ~game_over)

C3_Witness ==
    /\ lastOp = "key" /\ checks >= 1
    /\ HasBlank(Board)
    /\ result = "False"

\* C4: game_over is false right after start(); it goes from false to true only
\* in a step that ran check_win() with the result true; and it goes from true
\* to false only in start().
C4_FlagMachine ==
    [][ /\ (lastOp' = "start" => ~game_over')
        /\ ((~game_over /\ game_over') =>
               (lastOp' \in {"key", "check_win"} /\ checks' >= 1 /\ result' = "True"))
        /\ ((game_over /\ ~game_over') => lastOp' = "start") ]_vars

C4_Witness ==
    /\ game_over
    /\ lastOp = "check_win"
    /\ result = "False"

\* C5: every cell whose start value is not 0 holds its start value in the
\* working board.
C5_GivenCellsKept ==
    \A r \in 1..9, c \in 1..9 :
        StartBoard[r][c] # 0 => Board[r][c] = StartBoard[r][c]

\* C6: a click or a key press handled while game_over is true changes neither
\* the working board nor the cursor, and leaves game_over true.
C6_NoInputWhenOver ==
    [][ (game_over /\ lastOp' \in {"click", "key"}) =>
           (Board' = Board /\ row' = row /\ col' = col /\ game_over') ]_vars

C6_Witness ==
    /\ game_over
    /\ lastOp = "key"
    /\ row >= 0 /\ col >= 0

\* C7: the start board always equals the board produced at load time.
C7_StartBoardKept == StartBoard = loaded

C7_Witness ==
    /\ lastOp = "key"
    /\ Board # StartBoard

\* C8: after start(), once or several times in a row, the working board equals
\* the start board cell for cell, which is the loaded board, and game_over is
\* false.
C8_ResetIdempotent ==
    lastOp = "start" => (Board = StartBoard /\ StartBoard = loaded /\ ~game_over)

C8_Witness ==
    /\ lastOp = "start" /\ streak >= 2
    /\ Board = StartBoard
    /\ ~game_over

\* C9: a check_win() call that follows another with no write to the working
\* board in between returns a boolean, the same one as the call before.
C9_SameBooleanTwice ==
    [][ (lastOp' = "check_win" /\ checks >= 1) =>
           (result' \in {"True", "False"} /\ result' = result) ]_vars

\* C10: the working board is a list of 9 rows of 9 values in 0..9.
C10_BoardShape ==
    /\ DOMAIN puzzle = 1..9
    /\ \A r \in 1..9 :
          /\ DOMAIN Board[r] = 1..9
          /\ \A c \in 1..9 : Board[r][c] \in 0..9

C10_Witness ==
    /\ lastOp = "key"
    /\ \E r \in 1..9, c \in 1..9 : Board[r][c] # loaded[r][c]
    /\ \E r \in 1..9, c \in 1..9 : Board[r][c] = 0

\* The ASCII digits.
AsciiDigits == {"0", "1", "2", "3", "4", "5", "6", "7", "8", "9"}

\* A line of exactly nine ASCII digits, with or without its line end.
DigitLine(l) ==
    /\ Len(l) \in {9, 10}
    /\ \A j \in 1..9 : l[j] \in AsciiDigits
    /\ Len(l) = 10 => l[10] = "\n"

WellFormed(file) == Len(file) = 9 /\ \A i \in 1..9 : DigitLine(file[i])

\* Fewer or more than nine lines, a line whose stripped length is not 9, or a
\* line that holds a character that is no digit.
Malformed(file) ==
    \/ Len(file) # 9
    \/ \E i \in 1..Len(file) :
          LET l == strip(file[i]) IN
          Len(l) # 9 \/ \E j \in 1..Len(l) : l[j] \notin AsciiDigits

\* C11: once a file of nine lines of nine digits is parsed, parsing has not
\* failed and the board has nine rows of nine values, cell (i, j) being the
\* value of character j of line i.
C11_ParseRoundTrip ==
    (pc # "parse" /\ WellFormed(boards_file)) =>
        /\ pc # "failed"
        /\ Len(loaded) = 9
        /\ \A i \in 1..9 :
              /\ Len(loaded[i]) = 9
              /\ \A j \in 1..9 : loaded[i][j] = int(boards_file[i][j])

C11_Witness ==
    /\ pc = "parsed"
    /\ WellFormed(boards_file)
    /\ Len(loaded) = 9
    /\ loaded[1] # Solved[1] /\ loaded[1] # Blanked(Solved, {<<0, 0>>, <<0, 1>>})[1]

\* C12: once a malformed file is parsed, SudokuError has been raised and no
\* board exists.
C12_MalformedRejected ==
    (pc # "parse" /\ Malformed(boards_file)) =>
        /\ pc = "failed"
        /\ err = "SudokuError"
        /\ loaded = <<>> /\ start_puzzle = <<>>

C12_Witness ==
    /\ pc = "failed"
    /\ err = "SudokuError"
    /\ Len(boards_file) = 10

\* C13: after a SudokuError at startup, start() has not run, no working board
\* exists and the UI is not constructed; the game is started and the UI is
\* constructed only for a file that parses.
C13_FailFast ==
    /\ pc = "failed" => (~ui_built /\ puzzle = <<>> /\ lastOp = "none")
    /\ (ui_built \/ puzzle # <<>> \/ lastOp # "none" \/ pc \in {"started", "running"})
          => create_board(boards_file).ok

C13_Witness ==
    /\ pc = "failed"
    /\ err = "SudokuError"
    /\ ~ui_built
    /\ Len(boards_file) = 9

\* The cell a click at pixel (x, y) computes: (row, col).
ClickedCell(x, y) == <<FloorDiv(y - MARGIN, SIDE), FloorDiv(x - MARGIN, SIDE)>>

OnBoard(cell) == cell[1] \in 0..8 /\ cell[2] \in 0..8

\* C14: start() ends without an error, and check_win() ends without an error
\* and returns a boolean.
C14_OperationsTotal ==
    /\ lastOp = "start" => err = "none"
    /\ lastOp = "check_win" => (result \in {"True", "False"} /\ err = "none")

\* C15: a click whose computed cell lies outside rows and columns 0..8 ends in
\* an error and leaves the cursor where it was.
C15_OutOfRangeSignalled ==
    [][ \A x \in Pixels, y \in Pixels :
          (cell_clicked(x, y) /\ ~game_over /\ ~OnBoard(ClickedCell(x, y))) =>
              (err' # "none" /\ row' = row /\ col' = col) ]_vars

\* C16: an accepted digit key press with the cursor at (row, col) sets that
\* cell of the working board to the digit, changes no other cell of it and
\* leaves the start board as it was.
C16_WriteOneCell ==
    [][ \A ch \in Keys :
          (key_pressed(ch) /\ ~game_over /\ row >= 0 /\ col >= 0
              /\ ch \in AsciiDigits) =>
              /\ Board' = [Board EXCEPT ![row + 1][col + 1] = int(ch)]
              /\ StartBoard' = StartBoard ]_vars

C16_Witness ==
    /\ lastOp = "key" /\ wrote
    /\ \E r \in 1..9, c \in 1..9 :
          /\ Board[r][c] # StartBoard[r][c]
          /\ \A r2 \in 1..9, c2 \in 1..9 :
                <<r2, c2>> # <<r, c>> => Board[r2][c2] = StartBoard[r2][c2]

\* C17: whenever a digit key press would be accepted (the canvas has the
\* focus, game_over is false, the cursor has row >= 0 and col >= 0), the cell
\* under the cursor holds 0.
C17_KeyOnlyOnBlank ==
    (focus /\ ~game_over /\ row >= 0 /\ col >= 0) => Board[row + 1][col + 1] = 0

\* C18 (the key press case): after a key press that wrote a cell and left the
\* working board a valid completed Sudoku, game_over is true.
C18_WinDetectedOnKey ==
    (lastOp = "key" /\ wrote /\ IsSolved(Board)) => game_over

\* C19: a key press that writes a cell leaves the cursor at (-1, -1); a key
\* press right after one that wrote a cell writes nothing; a click on the
\* selected cell deselects it and changes no cell.
C19_FreshSelection ==
    [][ /\ (lastOp' = "key" /\ wrote') => (row' = -1 /\ col' = -1)
        /\ (lastOp = "key" /\ wrote /\ lastOp' = "key") => (~wrote' /\ Board' = Board)
        /\ \A x \in Pixels, y \in Pixels :
              (cell_clicked(x, y) /\ ~game_over /\ row >= 0 /\ col >= 0
                  /\ ClickedCell(x, y) = <<row, col>>) =>
                  (row' = -1 /\ col' = -1 /\ Board' = Board) ]_vars

C19_Witness ==
    /\ lastOp = "key" /\ streak >= 2
    /\ ~wrote /\ checks = 1
    /\ row = -1 /\ col = -1
    /\ Board # StartBoard

====
